---- MODULE Spec2Model ----
(***************************************************************************)
(* Model of src/core/sysir_x86.c, the x86-64 lowering of the system IR.    *)
(* One IR function is lowered per behaviour: the calling convention is     *)
(* normalised and storage assigned (assign_registers), the prologue is     *)
(* emitted, and the instruction stream is walked, one action per opcode    *)
(* group of the dispatch in janet_sys_ir_lower_to_x64.  The buffer is the  *)
(* sequence `out` of emitted lines; every line keeps, in its field j, the  *)
(* index of the IR instruction whose lowering appended it (-1: prologue).  *)
(***************************************************************************)
EXTENDS Integers, Sequences, FiniteSets, TLC

(* ----------------------------- bounds ---------------------------------- *)

\* most parameters a function has
MaxParams == 7
\* most non-parameter virtual registers a function has
MaxLocals == 15
\* most arguments a call has
MaxArgs == 7
\* longest string constant (bytes)
MaxStr == 3

(* ------------------------ physical registers --------------------------- *)

RAX == 0
RCX == 1
RDX == 2
RBX == 3
RSI == 4
RDI == 5
RSP == 6
RBP == 7

register_names ==
    << "rax", "rcx", "rdx", "rbx", "rsi", "rdi", "rsp", "rbp",
       "r8", "r9", "r10", "r11", "r12", "r13", "r14", "r15" >>

register_names_32 ==
    << "eax", "ecx", "edx", "ebx", "esi", "edi", "esp", "ebp",
       "r8d", "r9d", "r10d", "r11d", "r12d", "r13d", "r14d", "r15d" >>

register_names_16 ==
    << "ax", "cx", "dx", "bx", "si", "di", "sp", "bp",
       "r8w", "r9w", "r10w", "r11w", "r12w", "r13w", "r14w", "r15w" >>

register_names_8 ==
    << "al", "cl", "dl", "bl", "sil", "dil", "spl", "bpl",
       "r8b", "r9b", "r10b", "r11b", "r12b", "r13b", "r14b", "r15b" >>

register_names_xmm ==
    << "xmm0", "xmm1", "xmm2", "xmm3", "xmm4", "xmm5", "xmm6", "xmm7",
       "xmm8", "xmm9", "xmm10", "xmm11", "xmm12", "xmm13", "xmm14", "xmm15" >>

\* x64RegKind
x64RegKind == {"R8", "R16", "R32", "R64", "XMM"}

\* x64Storage
x64Storage == {"REGISTER", "STACK", "STACK_PARAMETER"}

(* ------------------------------ types ---------------------------------- *)

\* the primitive types virtual registers and constants are given
Prims == {"boolean", "s8", "u8", "s16", "u16", "s32", "u32", "s64", "u64",
          "pointer", "f32", "f64", "struct"}

get_x64layout(prim) ==
    CASE prim \in {"s8", "u8", "boolean"} -> [size |-> 1, alignment |-> 1]
      [] prim \in {"s16", "u16"} -> [size |-> 2, alignment |-> 2]
      [] prim \in {"s32", "u32"} -> [size |-> 4, alignment |-> 4]
      [] prim \in {"u64", "s64", "pointer"} -> [size |-> 8, alignment |-> 8]
      [] prim \in {"f32", "f64"} -> [size |-> 8, alignment |-> 8]
      [] OTHER -> [size |-> 1, alignment |-> 1]

(* ----------------------------- the state ------------------------------- *)

VARIABLES
    target,               \* JanetSysTarget handed to the lowering
    ir,                   \* the IR function: link_name, calling_convention,
                          \* parameter_count, register_count, types,
                          \* constants, instructions
    ir_index,             \* ctx.ir_index
    calling_convention,   \* ctx.calling_convention (normalised)
    regs,                 \* ctx.regs
    frame_size,           \* ctx.frame_size
    occupied_registers,   \* ctx.occupied_registers (set of bit numbers)
    clobbered_registers,  \* ctx.clobbered_registers (set of bit numbers)
    assigned_registers,   \* the local `assigned` of assign_registers, kept
    header,               \* ctx.buffer before `section .text`: the global
                          \* and extern lines this function accounts for
    out,                  \* ctx.buffer, as the sequence of emitted lines
    rodata,               \* ctx.buffer after `section .rodata`: the db
                          \* lines of this function's constants
    j,                    \* the walk's index into ir.instructions
    pc                    \* position of the lowering

vars == << target, ir, ir_index, calling_convention, regs, frame_size,
           occupied_registers, clobbered_registers, assigned_registers,
           header, out, rodata, j, pc >>

(* ----------------------------- operands -------------------------------- *)

\* An operand of an instruction: a virtual register index, or (above
\* JANET_SYS_MAX_OPERAND) a constant, index i of ir.constants.
VReg(i) == [const |-> FALSE, i |-> i]
Const(i) == [const |-> TRUE, i |-> i]
IsConstant(o) == o.const

\* ctx->linkage->type_defs[...].prim of an operand
OperandPrim(o) ==
    IF IsConstant(o) THEN ir.constants[o.i + 1].type ELSE ir.types[o.i + 1]

get_slot_regkind(o) ==
    LET prim == OperandPrim(o) IN
    IF prim \in {"s8", "u8"} THEN "R8"
    ELSE IF prim \in {"s16", "u16"} THEN "R16"
    ELSE IF prim \in {"s32", "u32"} THEN "R32"
    ELSE IF prim \in {"f64", "f32"} THEN "XMM"
    ELSE "R64"

(* ------------------------- storage assignment -------------------------- *)

\* the bits set in the unsigned value n
BitsOf(n) == {k \in 0..30 : (n \div (2 ^ k)) % 2 = 1}

RECURSIVE MaskValue(_)
\* the unsigned value of a set of bit numbers
MaskValue(S) ==
    IF S = {} THEN 0
    ELSE LET k == CHOOSE x \in S : TRUE IN (2 ^ k) + MaskValue(S \ {k})

\* a first fit from the top: the highest-numbered free register
FirstFree_highest(assigned) == CHOOSE to \in 0..15 :
    /\ to \notin assigned
    /\ \A k \in (to + 1)..15 : k \in assigned

\* `while ((1 << to) & assigned) to++` from to = 0
FirstFree(assigned) == CHOOSE to \in 0..31 :
    /\ to \notin assigned
    /\ \A k \in 0..(to - 1) : k \in assigned

\* storage of parameter i under calling convention cc (lines 184-211)
ParameterReg(cc, i, kind) ==
    IF cc = "X64_SYSV" THEN
        IF i >= 6 THEN [kind |-> kind, storage |-> "STACK_PARAMETER",
                        index |-> (i - 6) * 8 + 16]
        ELSE [kind |-> kind, storage |-> "REGISTER",
              index |-> << RDI, RSI, RDX, RCX, 8, 9 >>[i + 1]]
    ELSE
        IF i >= 4 THEN [kind |-> kind, storage |-> "STACK_PARAMETER",
                        index |-> (i - 4) * 8 + 16]
        ELSE [kind |-> kind, storage |-> "REGISTER",
              index |-> << RCX, RDX, 8, 9 >>[i + 1]]

RECURSIVE AssignLoop(_, _, _)
\* the loop of assign_registers from virtual register i on, with the loop's
\* locals in st
AssignLoop(cc, i, st) ==
    IF i >= ir.register_count THEN st
    ELSE LET kind == get_slot_regkind(VReg(i)) IN
      IF i < ir.parameter_count THEN
        AssignLoop(cc, i + 1,
            [st EXCEPT !.regs = Append(@, ParameterReg(cc, i, kind))])
      ELSE IF MaskValue(st.assigned) < (2 ^ 16) - 1 THEN
        LET to == FirstFree(st.assigned) IN
        AssignLoop(cc, i + 1,
            [st EXCEPT !.regs = Append(@, [kind |-> kind,
                                           storage |-> "REGISTER",
                                           index |-> to]),
                       !.assigned = @ \cup {to},
                       !.occupied = @ \cup {to}])
      ELSE
        LET layout == get_x64layout(ir.types[i + 1])
            loc == ((st.next_loc + layout.alignment - 1) \div layout.alignment)
                       * layout.alignment
        IN AssignLoop(cc, i + 1,
            [st EXCEPT !.regs = Append(@, [kind |-> kind,
                                           storage |-> "STACK",
                                           index |-> loc]),
                       !.next_loc = loc + layout.size])

\* non_volatile_mask without RBX
non_volatile_mask_norbx(cc) ==
    IF cc \in {"X64_SYSV", "X64_WINDOWS"} THEN 12..15 ELSE {}

\* non_volatile_mask of assign_registers (lines 235-252)
non_volatile_mask(cc) ==
    IF cc = "X64_SYSV" THEN
        BitsOf(2 ^ RBX) \cup BitsOf(2 ^ 12) \cup BitsOf(2 ^ 13)
            \cup BitsOf(2 ^ 14) \cup BitsOf(2 ^ 15)
    ELSE IF cc = "X64_WINDOWS" THEN
        BitsOf(2 ^ RBX) \cup BitsOf(RDI * (2 ^ 12)) \cup BitsOf(RSI * (2 ^ 12))
            \cup BitsOf(2 ^ 12) \cup BitsOf(2 ^ 13)
            \cup BitsOf(2 ^ 14) \cup BitsOf(2 ^ 15)
    ELSE {}

\* assign_registers leaving the frame size at the running offset, unrounded
assign_registers_unrounded(cc) ==
    LET st == AssignLoop(cc, 0, [next_loc |-> 16, regs |-> << >>,
                                 assigned |-> {RSP, RBP, RAX, RBX},
                                 occupied |-> {}])
    IN [regs |-> st.regs,
        frame_size |-> IF cc = "X64_WINDOWS" THEN st.next_loc + 16
                       ELSE st.next_loc,
        occupied_registers |-> st.occupied,
        assigned |-> st.assigned,
        clobbered_registers |-> st.assigned \cap non_volatile_mask(cc)]

\* assign_registers: the context fields it sets
assign_registers(cc) ==
    LET st == AssignLoop(cc, 0, [next_loc |-> 16, regs |-> << >>,
                                 assigned |-> {RSP, RBP, RAX, RBX},
                                 occupied |-> {}])
        rounded == ((st.next_loc + 15) \div 16) * 16
    IN [regs |-> st.regs,
        frame_size |-> IF cc = "X64_WINDOWS" THEN rounded + 16 ELSE rounded,
        occupied_registers |-> st.occupied,
        assigned |-> st.assigned,
        clobbered_registers |-> st.assigned \cap non_volatile_mask(cc)]

(* ------------------------- emitted operands ---------------------------- *)

\* One operand of an emitted line.  t is its class: "reg" (s the register
\* name), "local" (`s [rbp-n]`), "param" (`s [rbp+n]`), "imm" (the literal
\* n), "name" (the symbol s), "sym" (`CONST_f_n`), "label" (`label_f_n`).
\* ind: the operand is written inside [ ]; sz: the size word before the [.
Txt(t, s, n, f) == [t |-> t, s |-> s, n |-> n, f |-> f, ind |-> FALSE, sz |-> ""]
NoTxt == Txt("none", "", 0, 0)
Deref(x) == [x EXCEPT !.ind = TRUE]
SizedDeref(size, x) == [x EXCEPT !.ind = TRUE, !.sz = size]
Line(op, a, b) == [op |-> op, a |-> a, b |-> b]
\* a sequence back to front
Reverse(q) == [k \in 1..Len(q) |-> q[Len(q) + 1 - k]]

\* the operand addresses memory
IsMem(x) == x.ind \/ x.t \in {"local", "param"}
\* the operand is an immediate literal
IsImm(x) == ~x.ind /\ x.t \in {"imm", "name", "sym"}
\* the names physical register r goes by
NamesOf(r) == {register_names[r + 1], register_names_32[r + 1],
               register_names_16[r + 1], register_names_8[r + 1]}
\* the operand is physical register r itself
IsPhys(x, r) == ~x.ind /\ x.t = "reg" /\ x.s \in NamesOf(r)

operand_isstack(o) ==
    IF IsConstant(o) THEN FALSE ELSE regs[o.i + 1].storage # "REGISTER"

operand_isreg(o, regindex) ==
    IF IsConstant(o) THEN FALSE
    ELSE IF regs[o.i + 1].storage # "REGISTER" THEN FALSE
    ELSE regs[o.i + 1].index = regindex

sysemit_sizestr(kind) ==
    CASE kind = "R8" -> "byte"
      [] kind = "R16" -> "word"
      [] kind = "R32" -> "dword"
      [] kind = "R64" -> "qword"
      [] OTHER -> "qword"

sysemit_sizestr_reg(reg) == sysemit_sizestr(reg.kind)

sysemit_sizestr_slot(slot) == sysemit_sizestr(get_slot_regkind(slot))

sysemit_reg(reg) ==
    IF reg.storage = "STACK" THEN
        Txt("local", sysemit_sizestr_reg(reg), reg.index, 0)
    ELSE IF reg.storage = "STACK_PARAMETER" THEN
        Txt("param", sysemit_sizestr_reg(reg), reg.index, 0)
    ELSE IF reg.kind = "R64" THEN Txt("reg", register_names[reg.index + 1], 0, 0)
    ELSE IF reg.kind = "R32" THEN Txt("reg", register_names_32[reg.index + 1], 0, 0)
    ELSE IF reg.kind = "R16" THEN Txt("reg", register_names_16[reg.index + 1], 0, 0)
    ELSE IF reg.kind = "R8" THEN Txt("reg", register_names_8[reg.index + 1], 0, 0)
    ELSE Txt("reg", register_names_xmm[reg.index + 1], 0, 0)

sysemit_operand(o) ==
    IF ~IsConstant(o) THEN sysemit_reg(regs[o.i + 1])
    ELSE LET c == ir.constants[o.i + 1] IN
         IF c.tag = "string" THEN Txt("sym", "CONST", o.i, ir_index)
         ELSE IF c.tag = "symbol" THEN Txt("name", c.name, 0, 0)
         ELSE Txt("imm", "", c.value, 0)

\* a temporary x64Reg in physical register index
TempReg(kind, index) == [kind |-> kind, storage |-> "REGISTER", index |-> index]

(* ------------------------ emission primitives -------------------------- *)

sysemit_binop(op, dest, src) ==
    IF operand_isstack(dest) /\ operand_isstack(src) THEN
        LET tempreg == TempReg(get_slot_regkind(dest), RAX) IN
        << Line("mov", sysemit_reg(tempreg), sysemit_operand(src)),
           Line(op, sysemit_operand(dest), sysemit_reg(tempreg)) >>
    ELSE
        << Line(op, sysemit_operand(dest), sysemit_operand(src)) >>

\* uninit: what the read of the never-set tempreg2.storage (lines 380-386)
\* yields in the case of both operands on the stack
sysemit_load(dest, src, uninit) ==
    LET src_is_stack == operand_isstack(src)
        dest_is_stack == operand_isstack(dest)
    IN
    IF ~src_is_stack /\ ~dest_is_stack THEN
        << Line("mov", sysemit_operand(dest), Deref(sysemit_operand(src))) >>
    ELSE IF src_is_stack /\ dest_is_stack THEN
        LET tempreg == TempReg(get_slot_regkind(src), RAX)
            tempreg2 == [kind |-> get_slot_regkind(dest), storage |-> uninit,
                         index |-> RAX]
        IN << Line("mov", sysemit_reg(tempreg), sysemit_operand(src)),
              Line("mov", sysemit_reg(tempreg2), Deref(sysemit_reg(tempreg))),
              Line("mov", sysemit_operand(dest), sysemit_reg(tempreg2)) >>
    ELSE IF src_is_stack THEN
        LET tempreg == TempReg(get_slot_regkind(src), RAX) IN
        << Line("mov", sysemit_reg(tempreg), sysemit_operand(src)),
           Line("mov", sysemit_operand(dest), Deref(sysemit_reg(tempreg))) >>
    ELSE
        LET tempreg == TempReg(get_slot_regkind(src), RAX) IN
        << Line("mov", sysemit_reg(tempreg), Deref(sysemit_operand(src))),
           Line("mov", sysemit_operand(dest), sysemit_reg(tempreg)) >>

\* uninit: what the read of the never-set tempreg2.storage (lines 451-456)
\* yields in the case of both operands on the stack
sysemit_store(dest, src, uninit) ==
    LET src_is_stack == operand_isstack(src)
        dest_is_stack == operand_isstack(dest)
        store_size == sysemit_sizestr_slot(src)
    IN
    IF ~src_is_stack /\ ~dest_is_stack THEN
        << Line("mov", SizedDeref(store_size, sysemit_operand(dest)),
                sysemit_operand(src)) >>
    ELSE IF src_is_stack /\ dest_is_stack THEN
        LET tempreg == TempReg(get_slot_regkind(dest), RAX)
            tempreg2 == [kind |-> get_slot_regkind(dest), storage |-> uninit,
                         index |-> RBX]
        IN << Line("mov", sysemit_reg(tempreg), sysemit_operand(dest)),
              Line("mov", sysemit_reg(tempreg2), sysemit_operand(src)),
              Line("mov", SizedDeref(store_size, sysemit_reg(tempreg)),
                   sysemit_reg(tempreg2)) >>
    ELSE IF src_is_stack THEN
        LET tempreg == TempReg(get_slot_regkind(src), RAX) IN
        << Line("mov", sysemit_reg(tempreg), sysemit_operand(src)),
           Line("mov", SizedDeref(store_size, sysemit_operand(dest)),
                sysemit_reg(tempreg)) >>
    ELSE
        LET tempreg == TempReg(get_slot_regkind(dest), RAX) IN
        << Line("mov", sysemit_reg(tempreg), sysemit_operand(dest)),
           Line("mov", SizedDeref(store_size, sysemit_reg(tempreg)),
                sysemit_operand(src)) >>

sysemit_mov(dest, src) ==
    IF dest = src THEN << >> ELSE sysemit_binop("mov", dest, src)

sysemit_movreg(regdest, src) ==
    IF operand_isreg(src, regdest) THEN << >>
    ELSE << Line("mov", sysemit_reg(TempReg(get_slot_regkind(src), regdest)),
                 sysemit_operand(src)) >>

sysemit_movfromreg(dest, srcreg) ==
    IF operand_isreg(dest, srcreg) THEN << >>
    ELSE << Line("mov", sysemit_operand(dest),
                 sysemit_reg(TempReg(get_slot_regkind(dest), srcreg))) >>

sysemit_pushreg(dest_reg) ==
    << Line("push", Txt("reg", register_names[dest_reg + 1], 0, 0), NoTxt) >>

sysemit_mov_save(dest_reg, src) ==
    sysemit_pushreg(dest_reg) \o sysemit_movreg(dest_reg, src)

sysemit_popreg(dest_reg) ==
    << Line("pop", Txt("reg", register_names[dest_reg + 1], 0, 0), NoTxt) >>

sysemit_threeop(op, dest, lhs, rhs) ==
    sysemit_mov(dest, lhs) \o sysemit_binop(op, dest, rhs)

sysemit_threeop_nodeststack(op, dest, lhs, rhs) ==
    IF operand_isstack(dest) THEN
        sysemit_movreg(RAX, lhs)
        \o << Line(op, sysemit_reg(TempReg(get_slot_regkind(dest), RAX)),
                   sysemit_operand(lhs)) >>
        \o sysemit_movfromreg(dest, RAX)
    ELSE sysemit_threeop(op, dest, lhs, rhs)

sysemit_three_inst(op, instruction) ==
    sysemit_threeop(op, instruction.d, instruction.l, instruction.r)

RECURSIVE PopsFrom(_, _)
\* the loop `for (k = 31; k >= 0; k--)` of sysemit_ret from k down
PopsFrom(k, clobbered) ==
    IF k < 0 THEN << >>
    ELSE (IF k \in clobbered
          THEN << Line("pop", Txt("reg", register_names[k + 1], 0, 0), NoTxt) >>
          ELSE << >>) \o PopsFrom(k - 1, clobbered)

\* sysemit_ret popping in the order of the prologue's pushes
sysemit_ret_ascending(arg, has_return) ==
    (IF has_return THEN sysemit_movreg(RAX, arg) ELSE << >>)
    \o Reverse(PopsFrom(31, clobbered_registers))
    \o << Line("leave", NoTxt, NoTxt), Line("ret", NoTxt, NoTxt) >>

sysemit_ret(arg, has_return) ==
    (IF has_return THEN sysemit_movreg(RAX, arg) ELSE << >>)
    \o PopsFrom(31, clobbered_registers)
    \o << Line("leave", NoTxt, NoTxt), Line("ret", NoTxt, NoTxt) >>

(* --------------------------- instructions ------------------------------ *)

\* An IR instruction.  The fields overlay as the union of the source does:
\*   three { dest d, lhs l, rhs r }      two { dest d, src l }
\*   branch { cond d, to n }             jump { to n }      label { id n }
\*   call { dest d, callee l, flags has (HAS_DEST), calling_convention cc,
\*          arg_count n }                ret { value d, has_value has }
\*   arg { args d, l, r }, n of them in use
NoOperand == [const |-> FALSE, i |-> -1]
Instr(opcode, d, l, r, n, has, cc) ==
    [opcode |-> opcode, d |-> d, l |-> l, r |-> r, n |-> n, has |-> has,
     cc |-> cc]

\* the arguments of the call at index jj, read from the ARG instructions
\* that follow it, three to an instruction
janet_sys_callargs(jj) ==
    LET call == ir.instructions[jj + 1] IN
    [k \in 1..call.n |->
        LET arg == ir.instructions[jj + 1 + ((k - 1) \div 3) + 1]
            slot == (k - 1) % 3
        IN IF slot = 0 THEN arg.d ELSE IF slot = 1 THEN arg.l ELSE arg.r]

(* ---------------------- comparisons and casts -------------------------- *)

\* sysemit_comp fusing with a following branch on any condition
sysemit_comp_anybranch(index, branch, branch_invert, set, set_invert, oob) ==
    LET instruction == ir.instructions[index + 1]
        swap == IsConstant(instruction.l)
        set2 == IF swap THEN set_invert ELSE set
        branch2 == IF swap THEN branch_invert ELSE branch
        branch_invert2 == IF swap THEN branch ELSE branch_invert
        cmp == IF swap THEN sysemit_binop("cmp", instruction.r, instruction.l)
               ELSE sysemit_binop("cmp", instruction.l, instruction.r)
        has_next == index < Len(ir.instructions) - 1
        nexti == ir.instructions[index + 2]
    IN
    IF has_next /\ nexti.opcode \in {"BRANCH", "BRANCH_NOT"} THEN
        LET invert == nexti.opcode = "BRANCH_NOT" IN
        [lines |-> cmp \o << Line(IF invert THEN branch_invert2 ELSE branch2,
                                  Txt("label", "", nexti.n, ir_index), NoTxt) >>,
         skip |-> 1]
    ELSE
        LET kind == get_slot_regkind(instruction.d) IN
        [lines |-> cmp
            \o (IF kind # "R8"
                THEN sysemit_binop("xor", instruction.d, instruction.d)
                ELSE << >>)
            \o << Line(set2,
                       Txt("reg", IF instruction.d.i < 16
                                  THEN register_names_8[instruction.d.i + 1]
                                  ELSE oob, 0, 0),
                       NoTxt) >>,
         skip |-> 0]

\* oob: what the read of register_names_8[dest] yields when dest >= 16,
\* past the end of the table
sysemit_comp(index, branch, branch_invert, set, set_invert, oob) ==
    LET instruction == ir.instructions[index + 1]
        swap == IsConstant(instruction.l)
        set2 == IF swap THEN set_invert ELSE set
        branch2 == IF swap THEN branch_invert ELSE branch
        branch_invert2 == IF swap THEN branch ELSE branch_invert
        cmp == IF swap THEN sysemit_binop("cmp", instruction.r, instruction.l)
               ELSE sysemit_binop("cmp", instruction.l, instruction.r)
        has_next == index < Len(ir.instructions) - 1
        nexti == ir.instructions[index + 2]
    IN
    IF has_next /\ nexti.opcode \in {"BRANCH", "BRANCH_NOT"}
                /\ nexti.d = instruction.d THEN
        LET invert == nexti.opcode = "BRANCH_NOT" IN
        [lines |-> cmp \o << Line(IF invert THEN branch_invert2 ELSE branch2,
                                  Txt("label", "", nexti.n, ir_index), NoTxt) >>,
         skip |-> 1]
    ELSE
        LET kind == get_slot_regkind(instruction.d) IN
        [lines |-> cmp
            \o (IF kind # "R8"
                THEN sysemit_binop("xor", instruction.d, instruction.d)
                ELSE << >>)
            \o << Line(set2,
                       Txt("reg", IF instruction.d.i < 16
                                  THEN register_names_8[instruction.d.i + 1]
                                  ELSE oob, 0, 0),
                       NoTxt) >>,
         skip |-> 0]

sysemit_cast(instruction) ==
    LET dest == instruction.d
        src == instruction.l
        srckind == get_slot_regkind(src)
        destkind == get_slot_regkind(dest)
    IN
    IF srckind = destkind THEN sysemit_mov(dest, src)
    ELSE LET regindex ==
                 IF ~IsConstant(src) /\ regs[src.i + 1].storage = "REGISTER"
                 THEN regs[src.i + 1].index ELSE RAX
         IN sysemit_movreg(regindex, src) \o sysemit_movfromreg(dest, regindex)

(* ------------------------------- calls --------------------------------- *)

\* `if (save && argcount >= k) mov_save(reg, args[k-1]);
\*  if (save && argcount < k) pushreg(reg);`
SaveArgReg(save, reg, k, args, argcount) ==
    IF save /\ argcount >= k THEN sysemit_mov_save(reg, args[k])
    ELSE IF save /\ argcount < k THEN sysemit_pushreg(reg)
    ELSE << >>

PushIf(save, reg) == IF save THEN sysemit_pushreg(reg) ELSE << >>
PopIf(save, reg) == IF save THEN sysemit_popreg(reg) ELSE << >>

\* lines: what is appended; panic: janet_panic("nyi push sysv args") is hit
sysemit_sysv_call(instruction, args, argcount) ==
    LET save_rdi == argcount >= 1 \/ RDI \in occupied_registers
        save_rsi == argcount >= 2 \/ RSI \in occupied_registers
        save_rdx == argcount >= 3 \/ RDX \in occupied_registers
        save_rcx == argcount >= 4 \/ RCX \in occupied_registers
        save_r8 == argcount >= 5 \/ 8 \in occupied_registers
        save_r9 == argcount >= 6 \/ 9 \in occupied_registers
        save_r10 == 10 \in occupied_registers
        save_r11 == 11 \in occupied_registers
        saves == SaveArgReg(save_rdi, RDI, 1, args, argcount)
              \o SaveArgReg(save_rsi, RSI, 2, args, argcount)
              \o SaveArgReg(save_rdx, RDX, 3, args, argcount)
              \o SaveArgReg(save_rcx, RCX, 4, args, argcount)
              \o SaveArgReg(save_r8, 8, 5, args, argcount)
              \o SaveArgReg(save_r9, 9, 6, args, argcount)
              \o PushIf(save_r10, 10)
              \o PushIf(save_r11, 11)
    IN
    IF argcount - 1 >= 6 THEN [lines |-> saves, panic |-> TRUE]
    ELSE
      [lines |-> saves
        \o (IF instruction.opcode = "SYSCALL"
            THEN sysemit_movreg(RAX, instruction.l)
                 \o << Line("syscall", NoTxt, NoTxt) >>
            ELSE << Line("mov", Txt("reg", "rax", 0, 0), Txt("imm", "", 0, 0)),
                    Line("call", sysemit_operand(instruction.l), NoTxt) >>)
        \o (IF instruction.has THEN sysemit_movreg(RAX, instruction.d) ELSE << >>)
        \o PopIf(save_r11, 11)
        \o PopIf(save_r10, 10)
        \o PopIf(save_r9, 9)
        \o PopIf(save_r8, 8)
        \o PopIf(save_rcx, RCX)
        \o PopIf(save_rdx, RDX)
        \o PopIf(save_rsi, RSI)
        \o PopIf(save_rdi, RDI),
       panic |-> FALSE]

sysemit_win64_call(instruction, args, argcount) ==
    LET save_rcx == argcount >= 1 \/ RCX \in occupied_registers
        save_rdx == argcount >= 2 \/ RDX \in occupied_registers
        save_r8 == argcount >= 3 \/ 8 \in occupied_registers
        save_r9 == argcount >= 4 \/ 9 \in occupied_registers
        save_r10 == 10 \in occupied_registers
        save_r11 == 11 \in occupied_registers
    IN
      [lines |->
           SaveArgReg(save_rcx, RCX, 1, args, argcount)
        \o SaveArgReg(save_rdx, RDX, 2, args, argcount)
        \o SaveArgReg(save_r8, 8, 3, args, argcount)
        \o SaveArgReg(save_r9, 9, 4, args, argcount)
        \o PushIf(save_r10, 10)
        \o PushIf(save_r11, 11)
        \o [k \in 1..(IF argcount > 4 THEN argcount - 4 ELSE 0) |->
                Line("push", sysemit_operand(args[4 + k]), NoTxt)]
        \o (IF instruction.opcode = "SYSCALL"
            THEN sysemit_movreg(RAX, instruction.l)
                 \o << Line("syscall", NoTxt, NoTxt) >>
            ELSE << Line("call", sysemit_operand(instruction.l), NoTxt) >>)
        \o (IF argcount > 4
            THEN << Line("add", Txt("reg", "rsp", 0, 0),
                         Txt("imm", "", 8 * (argcount - 4), 0)) >>
            ELSE << >>)
        \o (IF instruction.has THEN sysemit_movreg(RAX, instruction.d) ELSE << >>)
        \o PopIf(save_r11, 11)
        \o PopIf(save_r10, 10)
        \o PopIf(save_r9, 9)
        \o PopIf(save_r8, 8)
        \o PopIf(save_rdx, RDX)
        \o PopIf(save_rcx, RCX),
       panic |-> FALSE]

(* ------------------------- the functions lowered ----------------------- *)

\* the constants every function lowered here has: an integer, a string and
\* an external symbol
Constants ==
    << [type |-> "s32", tag |-> "integer", value |-> 5, name |-> "",
        bytes |-> << >>],
       [type |-> "pointer", tag |-> "string", value |-> 0, name |-> "hi",
        bytes |-> << 104, 105 >>],
       [type |-> "pointer", tag |-> "symbol", value |-> 0, name |-> "printf",
        bytes |-> << >>] >>

\* the types given to the virtual registers, in turn from virtual register
\* rot on
TypeCycle == << "s64", "s32", "boolean", "s8", "pointer", "s16", "f64", "u8" >>
TypesOf(register_count, rot) ==
    [i \in 1..register_count |-> TypeCycle[((i - 1 + rot) % Len(TypeCycle)) + 1]]

\* registers the first-fit pass can hand out: all 16 but RSP, RBP, RAX, RBX
FreeRegisters == 0..15 \ {RSP, RBP, RAX, RBX}
\* parameters passed in registers under a calling convention
ParamRegisters(cc) == IF cc = "X64_WINDOWS" THEN 4 ELSE 6

ThreeOps == [ADD |-> "add", POINTER_ADD |-> "add", SUBTRACT |-> "sub",
             POINTER_SUBTRACT |-> "sub", DIVIDE |-> "idiv", BAND |-> "and",
             BOR |-> "or", BXOR |-> "xor", SHL |-> "shl", SHR |-> "shr"]
CompOps == {"EQ", "NEQ", "LT", "LTE", "GT", "GTE"}
NonSynthesized == {"TYPE_PRIMITIVE", "TYPE_UNION", "TYPE_STRUCT", "TYPE_BIND",
                   "TYPE_ARRAY", "TYPE_POINTER", "ARG"}
\* opcodes the dispatch has no case for
OtherOps == {"ADDRESS", "BNOT"}

None == NoOperand
\* the ARG instructions carrying the argument list args
ArgInstrs(args) ==
    [q \in 1..((Len(args) + 2) \div 3) |->
        Instr("ARG",
              args[3 * q - 2],
              IF 3 * q - 1 <= Len(args) THEN args[3 * q - 1] ELSE None,
              IF 3 * q <= Len(args) THEN args[3 * q] ELSE None,
              IF 3 * q <= Len(args) THEN 3 ELSE Len(args) - 3 * (q - 1),
              FALSE, "DEFAULT")]

\* a call with its argument instructions
CallProgram(opcode, dest, has, callee, cc, args) ==
    << Instr(opcode, dest, callee, None, Len(args), has, cc) >> \o ArgInstrs(args)

\* argument lists: every list of at most free operands of P, and the lists
\* of up to MaxArgs operands that are in turn two operands of Q
ArgLists(P, Q, free) ==
    UNION {[1..n -> P] : n \in 0..free}
    \cup {[k \in 1..n |-> IF k % 2 = 1 THEN q1 ELSE q2] :
            n \in (free + 1)..MaxArgs, q1 \in Q, q2 \in Q}

\* A function: its shape (parameters, locals), calling convention, types
\* and instruction stream.
Function(link_name, cc, params, locals, rot, instructions) ==
    [link_name |-> link_name, calling_convention |-> cc,
     parameter_count |-> params, register_count |-> params + locals,
     types |-> TypesOf(params + locals, rot), constants |-> Constants,
     instructions |-> instructions]

\* Functions of every shape within the bounds, for either target, with a
\* return or a call of every argument count as the instruction stream.
ShapeFunction(f) ==
    \E params \in 0..MaxParams, locals \in 0..MaxLocals, rot \in {0, 3} :
       \/ f = Function("f", "DEFAULT", params, locals, rot,
                << Instr("RETURN", None, None, None, 0, FALSE, "DEFAULT") >>)
       \/ \E n \in 0..MaxArgs :
            f = Function("f", "DEFAULT", params, locals, rot,
                    CallProgram("CALL", None, FALSE, Const(2), "DEFAULT",
                                [k \in 1..n |-> Const(0)]))

\* A function without link name.
UnnamedFunction(f) ==
    f = Function("", "DEFAULT", 0, 1, 0,
            << Instr("RETURN", VReg(0), None, None, 0, TRUE, "DEFAULT") >>)

\* the bytes string constants are made of: control bytes, the space, the
\* quote, the comma and a letter
Bytes == {10, 31, 32, 34, 44, 65}
\* the string constants: every byte string of at most MaxStr bytes
Strings == UNION {[1..n -> Bytes] : n \in 0..MaxStr}

\* Functions with and without link name whose constants are a string of
\* any bytes and two symbols, the first possibly the function's own name.
ConstantFunction(f) ==
    \E link_name \in {"", "f"}, str \in Strings, sym \in {"f", "puts", "printf"} :
       f = [Function(link_name, "DEFAULT", 0, 0, 0,
                << Instr("RETURN", None, None, None, 0, FALSE, "DEFAULT") >>)
            EXCEPT !.constants =
              << [type |-> "pointer", tag |-> "string", value |-> 0,
                  name |-> "", bytes |-> str],
                 [type |-> "pointer", tag |-> "symbol", value |-> 0,
                  name |-> sym, bytes |-> << >>],
                 [type |-> "pointer", tag |-> "symbol", value |-> 0,
                  name |-> "printf", bytes |-> << >>] >>]

\* Functions with a virtual register in every storage (a register and a
\* stack parameter, a first-fit register and a local stack slot), under
\* either calling convention, with the instruction streams over those
\* four registers R, the integer and the string: each opcode alone over
\* its operands, each comparison also before a branch on its dest, a branch
\* on virtual register 0 and a return, and each call before its ARG
\* instructions.
StorageFunction(f) ==
    \E cc \in {"X64_SYSV", "X64_WINDOWS"} :
      LET params == ParamRegisters(cc) + 1
          locals == Cardinality(FreeRegisters) + 1
          R == {VReg(0), VReg(params - 1), VReg(params),
                VReg(params + locals - 1)}
          N == R \cup {Const(0)}
          P == N \cup {Const(1)}
          Fn(instructions) == Function("f", cc, params, locals, 0, instructions)
      IN
      \/ \E op \in DOMAIN ThreeOps \cup {"MULTIPLY"} \cup CompOps \cup OtherOps,
            d \in R, l \in N, r \in N :
            f = Fn(<< Instr(op, d, l, r, 0, FALSE, "DEFAULT") >>)
      \/ \E op \in CompOps, d \in R, l \in N, r \in N,
            b \in {"BRANCH", "BRANCH_NOT"} :
            \E c \in {d, VReg(0)} :
            f = Fn(<< Instr(op, d, l, r, 0, FALSE, "DEFAULT"),
                      Instr(b, c, None, None, 2, FALSE, "DEFAULT") >>)
      \/ \E op \in CompOps, d \in R, l \in N, r \in N :
            f = Fn(<< Instr(op, d, l, r, 0, FALSE, "DEFAULT"),
                      Instr("RETURN", d, None, None, 0, TRUE, "DEFAULT") >>)
      \/ \E op \in {"LOAD", "STORE", "MOVE", "CAST"}, d \in R, l \in P :
            f = Fn(<< Instr(op, d, l, None, 0, FALSE, "DEFAULT") >>)
      \/ \E b \in {"BRANCH", "BRANCH_NOT"}, c \in R :
            f = Fn(<< Instr(b, c, None, None, 2, FALSE, "DEFAULT") >>)
      \/ f = Fn(<< Instr("LABEL", None, None, None, 1, FALSE, "DEFAULT"),
                   Instr("JUMP", None, None, None, 1, FALSE, "DEFAULT") >>)
      \/ f = Fn(<< Instr("TYPE_PRIMITIVE", None, None, None, 0, FALSE, "DEFAULT"),
                   Instr("RETURN", None, None, None, 0, FALSE, "DEFAULT") >>)
      \/ \E v \in P :
            f = Fn(<< Instr("RETURN", v, None, None, 0, TRUE, "DEFAULT") >>)
      \/ \E op \in {"CALL", "SYSCALL"}, d \in R \cup {None},
            callee \in {Const(0), Const(2)},
            ccall \in {"X64_SYSV", "X64_WINDOWS"},
            args \in ArgLists(P, {Const(0), VReg(params)}, 2) :
            f = Fn(CallProgram(op, d, d # None, callee, ccall, args))

(* ------------------------------ lowering ------------------------------- *)

Tag(lines, jj) ==
    [k \in 1..Len(lines) |->
        [op |-> lines[k].op, a |-> lines[k].a, b |-> lines[k].b, j |-> jj]]

RECURSIVE Externs(_, _)
\* lines 757-768: one `extern` per symbol constant from constant k (from 1)
\* on that is not in the table seen
Externs(k, seen) ==
    IF k > Len(ir.constants) THEN << >>
    ELSE LET c == ir.constants[k] IN
         IF c.tag = "symbol" /\ c.name \notin seen
         THEN << Line("extern", Txt("name", c.name, 0, 0), NoTxt) >>
              \o Externs(k + 1, seen \cup {c.name})
         ELSE Externs(k + 1, seen)

\* lines 748-768: the `global` line of the function and the `extern` lines
\* of its constants, the other functions of the linkage naming none of them
Prelude ==
    (IF ir.link_name # ""
     THEN << Line("global", Txt("name", ir.link_name, 0, 0), NoTxt) >>
     ELSE << >>)
    \o Externs(1, IF ir.link_name # "" THEN {ir.link_name} ELSE {})

RECURSIVE Digits(_)
\* `%d` of a byte: the character codes of its decimal digits
Digits(c) ==
    IF c < 10 THEN << 48 + c >> ELSE Digits(c \div 10) \o << 48 + (c % 10) >>

RECURSIVE DbText(_, _, _)
\* lines 941-962: the characters after `db ` for the bytes of str from ci
\* (from 0) on, up to the newline
DbText(str, ci, in_string) ==
    IF ci >= Len(str) THEN
        IF ~in_string THEN << 44, 32, 48 >> ELSE << 34, 44, 32, 48 >>
    ELSE LET c == str[ci + 1] IN
      IF c < 32 THEN
        (IF in_string THEN << 34, 44, 32 >>
         ELSE IF ci # 0 THEN << 44, 32 >> ELSE << >>)
        \o Digits(c) \o DbText(str, ci + 1, FALSE)
      ELSE
        (IF ~in_string THEN (IF ci # 0 THEN << 44, 32, 34 >> ELSE << 34 >>)
         ELSE << >>)
        \o << c >> \o DbText(str, ci + 1, TRUE)

\* lines 934-966: the db line `CONST_f_n: db text` of each string constant
Rodata ==
    LET strs == SelectSeq([k \in 1..Len(ir.constants) |-> k],
                          LAMBDA k : ir.constants[k].tag = "string")
    IN [q \in 1..Len(strs) |->
           [f |-> ir_index, n |-> strs[q] - 1,
            text |-> DbText(ir.constants[strs[q]].bytes, 0, FALSE)]]

Init ==
    /\ \/ /\ ShapeFunction(ir)
          /\ target \in {"X64_LINUX", "X64_WINDOWS"}
          /\ ir_index = 0
       \/ /\ StorageFunction(ir)
          /\ target = "X64_LINUX"
          /\ ir_index = 1
       \/ /\ UnnamedFunction(ir)
          /\ target \in {"X64_LINUX", "X64_WINDOWS"}
          /\ ir_index \in {0, 1}
       \/ /\ ConstantFunction(ir)
          /\ target = "X64_LINUX"
          /\ ir_index \in {0, 1}
    /\ calling_convention = "DEFAULT"
    /\ regs = << >>
    /\ frame_size = 0
    /\ occupied_registers = {}
    /\ clobbered_registers = {}
    /\ assigned_registers = {}
    /\ header = << >>
    /\ out = << >>
    /\ rodata = << >>
    /\ j = 0
    /\ pc = "start"

\* the lowering of a function without link name: after the prelude the
\* loop over the functions passes it by (lines 777-780), and the loop of
\* the .rodata section visits its constants
SkipUnnamed ==
    /\ pc = "start"
    /\ ir.link_name = ""
    /\ header' = Prelude
    /\ rodata' = Rodata
    /\ pc' = "done"
    /\ UNCHANGED << target, ir, ir_index, calling_convention, regs, frame_size,
                    occupied_registers, clobbered_registers,
                    assigned_registers, out, j >>

\* the prelude, then lines 781-800: the calling convention is normalised,
\* storage assigned
Setup ==
    /\ pc = "start"
    /\ ir.link_name # ""
    /\ LET cc == IF ir.calling_convention = "DEFAULT"
                 THEN (IF target = "X64_WINDOWS" THEN "X64_WINDOWS"
                       ELSE "X64_SYSV")
                 ELSE ir.calling_convention
           a == assign_registers(cc)
       IN /\ calling_convention' = cc
          /\ regs' = a.regs
          /\ frame_size' = a.frame_size
          /\ occupied_registers' = a.occupied_registers
          /\ clobbered_registers' = a.clobbered_registers
          /\ assigned_registers' = a.assigned
    /\ header' = Prelude
    /\ pc' = "prologue"
    /\ UNCHANGED << target, ir, ir_index, out, rodata, j >>

\* the loop `for (k = 0; k < 32; k++)` of the prologue
ProloguePushes(clobbered) ==
    LET ks == {k \in 0..31 : k \in clobbered}
        nth(n) == CHOOSE k \in ks : Cardinality({x \in ks : x < k}) = n - 1
    IN [n \in 1..Cardinality(ks) |->
           Line("push", Txt("reg", register_names[nth(n) + 1], 0, 0), NoTxt)]

\* lines 802-814
Prologue ==
    << Line("label:", Txt("name", ir.link_name, 0, 0), NoTxt),
       Line("push", Txt("reg", "rbp", 0, 0), NoTxt),
       Line("mov", Txt("reg", "rbp", 0, 0), Txt("reg", "rsp", 0, 0)),
       Line("sub", Txt("reg", "rsp", 0, 0), Txt("imm", "", frame_size, 0)) >>
    \o ProloguePushes(clobbered_registers)

EmitPrologue ==
    /\ pc = "prologue"
    /\ out' = out \o Tag(Prologue, -1)
    /\ pc' = "body"
    /\ UNCHANGED << target, ir, ir_index, calling_convention, regs, frame_size,
                    occupied_registers, clobbered_registers,
                    assigned_registers, header, rodata, j >>

\* the instruction the walk is at
AtOpcode(ops) ==
    /\ pc = "body"
    /\ j < Len(ir.instructions)
    /\ ir.instructions[j + 1].opcode \in ops

\* one iteration of the walk: lines are appended, skip more instructions
\* are passed over
Step(lines, skip) ==
    /\ out' = out \o Tag(lines, j)
    /\ j' = j + skip + 1
    /\ UNCHANGED << target, ir, ir_index, calling_convention, regs, frame_size,
                    occupied_registers, clobbered_registers,
                    assigned_registers, header, rodata, pc >>

\* the storages the read of an uninitialised x64Storage can yield
Uninit(dest, src) ==
    IF operand_isstack(dest) /\ operand_isstack(src) THEN x64Storage
    ELSE {"REGISTER"}

LowerLoad ==
    /\ AtOpcode({"LOAD"})
    /\ LET instruction == ir.instructions[j + 1] IN
       \E uninit \in Uninit(instruction.d, instruction.l) :
           Step(sysemit_load(instruction.d, instruction.l, uninit), 0)

LowerStore ==
    /\ AtOpcode({"STORE"})
    /\ LET instruction == ir.instructions[j + 1] IN
       \E uninit \in Uninit(instruction.d, instruction.l) :
           Step(sysemit_store(instruction.d, instruction.l, uninit), 0)

LowerNonSynthesized ==
    /\ AtOpcode(NonSynthesized)
    /\ Step(<< >>, 0)

LowerThreeInst ==
    /\ AtOpcode(DOMAIN ThreeOps)
    /\ LET instruction == ir.instructions[j + 1] IN
       Step(sysemit_three_inst(ThreeOps[instruction.opcode], instruction), 0)

LowerMultiply ==
    /\ AtOpcode({"MULTIPLY"})
    /\ LET instruction == ir.instructions[j + 1] IN
       Step(sysemit_threeop_nodeststack("imul", instruction.d, instruction.l,
                                        instruction.r), 0)

LowerMove ==
    /\ AtOpcode({"MOVE"})
    /\ LET instruction == ir.instructions[j + 1] IN
       Step(sysemit_mov(instruction.d, instruction.l), 0)

LowerReturn ==
    /\ AtOpcode({"RETURN"})
    /\ LET instruction == ir.instructions[j + 1] IN
       Step(sysemit_ret(instruction.d, instruction.has), 0)

LowerLabel ==
    /\ AtOpcode({"LABEL"})
    /\ LET instruction == ir.instructions[j + 1] IN
       Step(<< Line("label:", Txt("label", "", instruction.n, ir_index), NoTxt) >>, 0)

\* the jump and set mnemonics the dispatch hands to sysemit_comp
CompTable ==
    [EQ |-> << "je", "jne", "sete", "setne" >>,
     NEQ |-> << "jne", "je", "setne", "sete" >>,
     LT |-> << "jl", "jge", "setl", "setge" >>,
     LTE |-> << "jle", "jg", "setle", "setg" >>,
     GT |-> << "jg", "jle", "setg", "setle" >>,
     GTE |-> << "jge", "jl", "setge", "setl" >>]

\* what lies past the end of register_names_8
OutOfBounds(dest) == IF dest.i < 16 THEN {""} ELSE {"xmm0", "?"}

LowerComp ==
    /\ AtOpcode(CompOps)
    /\ LET instruction == ir.instructions[j + 1]
           t == CompTable[instruction.opcode]
       IN \E oob \in OutOfBounds(instruction.d) :
            LET c == sysemit_comp(j, t[1], t[2], t[3], t[4], oob) IN
            Step(c.lines, c.skip)

LowerCast ==
    /\ AtOpcode({"CAST"})
    /\ Step(sysemit_cast(ir.instructions[j + 1]), 0)

LowerBranch ==
    /\ AtOpcode({"BRANCH", "BRANCH_NOT"})
    /\ LET instruction == ir.instructions[j + 1] IN
       Step(<< Line("test", sysemit_operand(instruction.d), Txt("imm", "", 0, 0)),
               Line(IF instruction.opcode = "BRANCH" THEN "jnz" ELSE "jz",
                    Txt("label", "", instruction.n, ir_index), NoTxt) >>, 0)

LowerJump ==
    /\ AtOpcode({"JUMP"})
    /\ LET instruction == ir.instructions[j + 1] IN
       Step(<< Line("jmp", Txt("label", "", instruction.n, ir_index), NoTxt) >>, 0)

\* lines 911-925
LowerCall ==
    /\ AtOpcode({"CALL", "SYSCALL"})
    /\ LET instruction == ir.instructions[j + 1]
           args == janet_sys_callargs(j)
           argcount == Len(args)
           cc == IF instruction.cc = "DEFAULT" THEN calling_convention
                 ELSE instruction.cc
           c == IF cc = "X64_SYSV"
                THEN sysemit_sysv_call(instruction, args, argcount)
                ELSE sysemit_win64_call(instruction, args, argcount)
       IN /\ out' = out \o Tag(c.lines, j)
          /\ j' = IF c.panic THEN j ELSE j + 1
          /\ pc' = IF c.panic THEN "panic" ELSE pc
    /\ UNCHANGED << target, ir, ir_index, calling_convention, regs, frame_size,
                    occupied_registers, clobbered_registers,
                    assigned_registers, header, rodata >>

\* the default case of the dispatch
LowerDefault ==
    /\ pc = "body"
    /\ j < Len(ir.instructions)
    /\ ir.instructions[j + 1].opcode \in OtherOps
    /\ Step(<< Line("; nyi:", Txt("name", ir.instructions[j + 1].opcode, 0, 0),
                    NoTxt) >>, 0)

\* the walk is past the last instruction: the .text section ends and the
\* .rodata section is written
Finish ==
    /\ pc = "body"
    /\ j >= Len(ir.instructions)
    /\ rodata' = Rodata
    /\ pc' = "done"
    /\ UNCHANGED << target, ir, ir_index, calling_convention, regs, frame_size,
                    occupied_registers, clobbered_registers,
                    assigned_registers, header, out, j >>

Next ==
    \/ SkipUnnamed
    \/ Setup
    \/ EmitPrologue
    \/ LowerLoad
    \/ LowerStore
    \/ LowerNonSynthesized
    \/ LowerThreeInst
    \/ LowerMultiply
    \/ LowerMove
    \/ LowerReturn
    \/ LowerLabel
    \/ LowerComp
    \/ LowerCast
    \/ LowerBranch
    \/ LowerJump
    \/ LowerCall
    \/ LowerDefault
    \/ Finish

Spec == Init /\ [][Next]_vars

(* ------------------------------ properties ----------------------------- *)

\* the lines the lowering of instruction jj appended (-1: the prologue)
OutOf(jj) == SelectSeq(out, LAMBDA x : x.j = jj)
\* the walk is past instruction jj
Lowered(jj) == pc \in {"body", "done"} /\ j > jj
\* the prologue is in the buffer
PrologueDone == pc \in {"body", "done", "panic"} /\ ir.link_name # ""
InstrIndices == 0..(Len(ir.instructions) - 1)
\* a line without its instruction index
L(x) == Line(x.op, x.a, x.b)
\* the number of the register a push or pop line names
RegNum(x) == CHOOSE r \in 0..15 : register_names[r + 1] = x.a.s
IsRegLine(x, op) == x.op = op /\ x.a.t = "reg" /\ ~x.a.ind
\* the register numbers of a sequence of push or pop lines
RegNums(lines) == [k \in 1..Len(lines) |-> RegNum(lines[k])]
Ascending(q) == \A k \in 1..(Len(q) - 1) : q[k] < q[k + 1]
Range(q) == {q[k] : k \in 1..Len(q)}
\* the positions of the lines of o with an opcode in ops
Positions(o, ops) == {k \in 1..Len(o) : o[k].op \in ops}

\* C1: the prologue is the label, `push rbp`, `mov rbp, rsp`,
\* `sub rsp, frame_size` and then one push per register of
\* clobbered_registers in ascending register number; every RETURN emits
\* (after the optional move of the value to RAX) one pop per register of
\* that set in the reverse of the push order, then `leave`, then `ret`.
C1_PushPop ==
    PrologueDone =>
      LET pro == OutOf(-1)
          pushes == SubSeq(pro, 5, Len(pro))
      IN /\ Len(pro) >= 4
         /\ L(pro[2]) = Line("push", Txt("reg", "rbp", 0, 0), NoTxt)
         /\ L(pro[3]) = Line("mov", Txt("reg", "rbp", 0, 0), Txt("reg", "rsp", 0, 0))
         /\ L(pro[4]) = Line("sub", Txt("reg", "rsp", 0, 0),
                             Txt("imm", "", frame_size, 0))
         /\ \A k \in 1..Len(pushes) : IsRegLine(pushes[k], "push")
         /\ Ascending(RegNums(pushes))
         /\ Range(RegNums(pushes)) = clobbered_registers
         /\ \A jj \in InstrIndices :
              (Lowered(jj) /\ ir.instructions[jj + 1].opcode = "RETURN") =>
                LET o == OutOf(jj)
                    n == Len(o)
                    first == IF n >= 1 /\ o[1].op = "mov" THEN 2 ELSE 1
                    pops == SubSeq(o, first, n - 2)
                IN /\ n >= 2
                   /\ o[n].op = "ret"
                   /\ o[n - 1].op = "leave"
                   /\ first = 2 => ir.instructions[jj + 1].has
                   /\ \A k \in 1..Len(pops) : IsRegLine(pops[k], "pop")
                   /\ RegNums(pops) = Reverse(RegNums(pushes))

\* C1 witness: a RETURN was lowered in a function that saves five registers
C1_Witness ==
    /\ pc = "done"
    /\ Cardinality(clobbered_registers) = 5
    /\ \E jj \in InstrIndices :
         /\ ir.instructions[jj + 1].opcode = "RETURN"
         /\ ir.instructions[jj + 1].has
         /\ Len(OutOf(jj)) = 8

\* the registers the calling conventions have the callee preserve, among
\* those a virtual register can be given
AbiNonVolatile(cc) ==
    IF cc = "X64_WINDOWS" THEN {RBX, RSI, RDI, 12, 13, 14, 15}
    ELSE {RBX, 12, 13, 14, 15}

\* C2: every register of the calling convention's non-volatile set that a
\* virtual register is stored in is in clobbered_registers, is pushed by
\* the prologue and is popped by every RETURN; the win64 set has RSI, RDI.
C2_NonVolatileSaved ==
    PrologueDone =>
      \A i \in 1..Len(regs) :
        (regs[i].storage = "REGISTER"
            /\ regs[i].index \in AbiNonVolatile(calling_convention)) =>
          /\ regs[i].index \in clobbered_registers
          /\ \E k \in 1..Len(out) :
                out[k].j = -1 /\ IsRegLine(out[k], "push")
                    /\ RegNum(out[k]) = regs[i].index
          /\ \A jj \in InstrIndices :
                (Lowered(jj) /\ ir.instructions[jj + 1].opcode = "RETURN") =>
                  \E k \in 1..Len(out) :
                    out[k].j = jj /\ IsRegLine(out[k], "pop")
                        /\ RegNum(out[k]) = regs[i].index

\* the position of the call or syscall line among lines o
CallPos(o) == CHOOSE k \in 1..Len(o) : o[k].op \in {"call", "syscall"}
IsCall(jj) == ir.instructions[jj + 1].opcode \in {"CALL", "SYSCALL"}

\* C3: after a call or syscall with a destination, the line right after
\* the call or syscall line is `mov <dest>, rax` (no line at all when dest
\* is stored in RAX).
C3_DestFromRax ==
    \A jj \in InstrIndices :
      (Lowered(jj) /\ IsCall(jj) /\ ir.instructions[jj + 1].has) =>
        LET o == OutOf(jj)
            k == CallPos(o)
            dest == ir.instructions[jj + 1].d
        IN \/ operand_isreg(dest, RAX)
           \/ /\ k < Len(o)
              /\ L(o[k + 1]) = Line("mov", sysemit_operand(dest),
                     sysemit_reg(TempReg(get_slot_regkind(dest), RAX)))

\* the condition under which `cmp x, y` followed by the jump or set op
\* jumps or sets the byte
Taken(op, x, y) ==
    CASE op \in {"je", "sete"} -> x = y
      [] op \in {"jne", "setne"} -> x # y
      [] op \in {"jl", "setl"} -> x < y
      [] op \in {"jle", "setle"} -> x <= y
      [] op \in {"jg", "setg"} -> x > y
      [] op \in {"jge", "setge"} -> x >= y
      [] OTHER -> FALSE
\* the IR comparison lhs OP rhs
Holds(opcode, lhs, rhs) ==
    CASE opcode = "EQ" -> lhs = rhs
      [] opcode = "NEQ" -> lhs # rhs
      [] opcode = "LT" -> lhs < rhs
      [] opcode = "LTE" -> lhs <= rhs
      [] opcode = "GT" -> lhs > rhs
      [] opcode = "GTE" -> lhs >= rhs
\* the comparison with its operands exchanged
Swapped == [EQ |-> "EQ", NEQ |-> "NEQ", LT |-> "GT", LTE |-> "GTE",
            GT |-> "LT", GTE |-> "LTE"]
JumpOf == [EQ |-> "je", NEQ |-> "jne", LT |-> "jl", LTE |-> "jle",
           GT |-> "jg", GTE |-> "jge"]
SetOf == [EQ |-> "sete", NEQ |-> "setne", LT |-> "setl", LTE |-> "setle",
          GT |-> "setg", GTE |-> "setge"]
Negated == [EQ |-> "NEQ", NEQ |-> "EQ", LT |-> "GTE", LTE |-> "GT",
            GT |-> "LTE", GTE |-> "LT"]
\* operand values the comparisons are tried on
Values == -1..1
Jumps == {"je", "jne", "jl", "jle", "jg", "jge"}
Sets == {"sete", "setne", "setl", "setle", "setg", "setge"}
IsComp(jj) == ir.instructions[jj + 1].opcode \in CompOps
\* the comparison at jj is followed by a branch on its dest
Fused(jj) ==
    /\ jj + 1 < Len(ir.instructions)
    /\ ir.instructions[jj + 2].opcode \in {"BRANCH", "BRANCH_NOT"}
    /\ ir.instructions[jj + 2].d = ir.instructions[jj + 1].d

\* C4: a comparison with a constant lhs and a virtual register rhs emits
\* `cmp rhs, lhs` and the jump (set) of the comparison with its operands
\* exchanged, negated for BRANCH_NOT, so that for all operand values the
\* jump is taken (the byte set) exactly when lhs OP rhs holds (for
\* BRANCH_NOT: does not hold).
C4_SwappedPredicate ==
    \A jj \in InstrIndices :
      LET instruction == ir.instructions[jj + 1] IN
      (Lowered(jj) /\ IsComp(jj) /\ IsConstant(instruction.l)
                   /\ ~IsConstant(instruction.r)) =>
        LET o == OutOf(jj)
            last == o[Len(o)]
            cmp == o[CHOOSE k \in 1..Len(o) : o[k].op = "cmp"]
            want == IF Fused(jj) /\ ir.instructions[jj + 2].opcode = "BRANCH_NOT"
                    THEN Negated[instruction.opcode] ELSE instruction.opcode
        IN /\ L(cmp) = Line("cmp", sysemit_operand(instruction.r),
                            sysemit_operand(instruction.l))
           /\ last.op = IF Fused(jj) THEN JumpOf[Swapped[want]]
                        ELSE SetOf[Swapped[want]]
           /\ \A lhs \in Values, rhs \in Values :
                Taken(last.op, rhs, lhs) <=> Holds(want, lhs, rhs)

\* C5: the first operand of every emitted cmp is not an immediate
C5_CmpFirstNotImmediate ==
    \A k \in 1..Len(out) : out[k].op = "cmp" => ~IsImm(out[k].a)

C7_NoTwoMemoryOperands ==
    /\ \A k \in 1..Len(out) : ~(IsMem(out[k].a) /\ IsMem(out[k].b))
    /\ \A jj \in InstrIndices :
         LET instruction == ir.instructions[jj + 1] IN
         (Lowered(jj) /\ instruction.opcode = "MOVE"
             /\ instruction.d # instruction.l
             /\ operand_isstack(instruction.d)
             /\ operand_isstack(instruction.l)) =>
           LET rax == sysemit_reg(TempReg(get_slot_regkind(instruction.d), RAX))
               o == OutOf(jj)
           IN /\ Len(o) = 2
              /\ L(o[1]) = Line("mov", rax, sysemit_operand(instruction.l))
              /\ L(o[2]) = Line("mov", sysemit_operand(instruction.d), rax)

\* the calling convention of the call at jj
CallCc(jj) ==
    IF ir.instructions[jj + 1].cc = "DEFAULT" THEN calling_convention
    ELSE ir.instructions[jj + 1].cc
\* the argument registers of a calling convention, in order
ArgRegs(cc) ==
    IF cc = "X64_SYSV" THEN << RDI, RSI, RDX, RCX, 8, 9 >> ELSE << RCX, RDX, 8, 9 >>
\* the registers a call under cc with argcount arguments has to save:
\* the argument and scratch registers that hold a virtual register or
\* take an argument
SaveSet(cc, argcount) ==
    {r \in Range(ArgRegs(cc)) \cup {10, 11} :
        \/ \E i \in 1..Len(regs) :
             regs[i].storage = "REGISTER" /\ regs[i].index = r
        \/ \E k \in 1..Len(ArgRegs(cc)) : ArgRegs(cc)[k] = r /\ k <= argcount}
\* the arguments of a call under cc that go to the stack
StackArgs(cc, argcount) ==
    IF cc = "X64_WINDOWS" /\ argcount > 4 THEN argcount - 4 ELSE 0

RECURSIVE StackAfter(_, _, _)
\* the stack (in 8-byte slots, with what each holds) after lines k.. of o
\* ran on stack st; ok: no pop took a slot another register's push filled
StackAfter(o, k, st) ==
    IF k > Len(o) \/ ~st.ok THEN st
    ELSE LET x == o[k]
             n == Len(st.slots)
         IN StackAfter(o, k + 1,
              CASE x.op = "push" -> [st EXCEPT !.slots = Append(@, x.a)]
                [] x.op = "pop" ->
                     IF n >= 1 /\ st.slots[n] = x.a
                     THEN [st EXCEPT !.slots = SubSeq(@, 1, n - 1)]
                     ELSE [st EXCEPT !.ok = FALSE]
                [] x.op = "add" /\ x.a.s = "rsp" ->
                     IF x.b.n % 8 = 0 /\ x.b.n \div 8 <= n
                     THEN [st EXCEPT !.slots = SubSeq(@, 1, n - (x.b.n \div 8))]
                     ELSE [st EXCEPT !.ok = FALSE]
                [] OTHER -> st)

\* C8: every call sequence pushes, before the call, each argument or
\* scratch register that holds a virtual register or takes an argument once, pops after the call exactly those in the reverse order,
\* and run on a stack of 8-byte slots leaves the stack as it found it,
\* every pop taking the slot its register's push filled.
C8_CallBalanced ==
    \A jj \in InstrIndices :
      (Lowered(jj) /\ IsCall(jj)) =>
        LET o == OutOf(jj)
            c == CallPos(o)
            cc == CallCc(jj)
            argcount == ir.instructions[jj + 1].n
            before == SelectSeq(SubSeq(o, 1, c - 1), LAMBDA x : x.op = "push")
            saves == SubSeq(before, 1, Len(before) - StackArgs(cc, argcount))
            after == SelectSeq(SubSeq(o, c + 1, Len(o)), LAMBDA x : x.op = "pop")
            end == StackAfter(o, 1, [slots |-> << >>, ok |-> TRUE])
        IN /\ Positions(SubSeq(o, 1, c - 1), {"pop"}) = {}
           /\ Positions(SubSeq(o, c + 1, Len(o)), {"push"}) = {}
           /\ Range(RegNums(saves)) = SaveSet(cc, argcount)
           /\ Len(saves) = Cardinality(SaveSet(cc, argcount))
           /\ RegNums(after) = Reverse(RegNums(saves))
           /\ end.ok
           /\ end.slots = << >>

\* C9: a win64 call with more than four arguments pushes arguments 4 and
\* up from the last to the fourth, and the line after the call line is
\* `add rsp, 8*(argcount-4)`.
C9_RightToLeft ==
    \A jj \in InstrIndices :
      LET argcount == ir.instructions[jj + 1].n IN
      (Lowered(jj) /\ IsCall(jj) /\ CallCc(jj) = "X64_WINDOWS" /\ argcount > 4) =>
        LET o == OutOf(jj)
            c == CallPos(o)
            args == janet_sys_callargs(jj)
            before == SelectSeq(SubSeq(o, 1, c - 1), LAMBDA x : x.op = "push")
            pushed == SubSeq(before, Len(before) - (argcount - 4) + 1, Len(before))
        IN /\ Len(pushed) = argcount - 4
           /\ \A m \in 1..(argcount - 4) :
                pushed[m].a = sysemit_operand(args[argcount + 1 - m])
           /\ c < Len(o)
           /\ L(o[c + 1]) = Line("add", Txt("reg", "rsp", 0, 0),
                                 Txt("imm", "", 8 * (argcount - 4), 0))

\* the registers taken before non-parameter virtual register i (from 0)
\* is placed: the four reserved ones and those of the non-parameters below
TakenBefore(i) ==
    {RSP, RBP, RAX, RBX}
    \cup {regs[k + 1].index : k \in {x \in ir.parameter_count..(i - 1) :
                                        regs[x + 1].storage = "REGISTER"}}

\* C10: every non-parameter virtual register is in the lowest-numbered
\* register no reserved register and no earlier non-parameter has taken,
\* and is on the local stack only when all 16 are taken.
C10_FirstFit ==
    (pc # "start" /\ ir.link_name # "") =>
      /\ Len(regs) = ir.register_count
      /\ \A i \in ir.parameter_count..(ir.register_count - 1) :
           LET free == (0..15) \ TakenBefore(i) IN
           IF free # {} THEN
               /\ regs[i + 1].storage = "REGISTER"
               /\ regs[i + 1].index \in free
               /\ \A r \in free : regs[i + 1].index <= r
               /\ regs[i + 1].index \notin {RAX, RBX, RSP, RBP}
           ELSE regs[i + 1].storage = "STACK"

\* C10 witness: the registers ran out and two virtual registers went to
\* the local stack
C10_Witness ==
    /\ pc = "done"
    /\ ir.register_count >= ir.parameter_count + 14
    /\ regs[ir.register_count].storage = "STACK"
    /\ regs[ir.register_count - 1].storage = "STACK"
    /\ regs[ir.register_count - 2].storage = "REGISTER"
    /\ regs[ir.register_count - 2].index = 15

(* ------------------------------ the frame ------------------------------ *)

\* the virtual registers (from 0) on the local stack
StackRegs == {i \in 0..(Len(regs) - 1) : regs[i + 1].storage = "STACK"}
\* the bytes of the slot of virtual register i
SlotSize(i) == get_x64layout(ir.types[i + 1]).size
\* the local area: the offset the slots end at, 16 without a slot
LocalArea ==
    LET ends == {16} \cup {regs[i + 1].index + SlotSize(i) : i \in StackRegs}
    IN CHOOSE e \in ends : \A x \in ends : x <= e
\* the `sub rsp, F` lines of the prologue
SubRsp == SelectSeq(OutOf(-1), LAMBDA x : x.op = "sub" /\ x.a.s = "rsp")

\* C11: the prologue has one `sub rsp, F`; F is the assigner's frame size,
\* a multiple of 16, at least offset plus size of every local stack slot,
\* and the local area rounded up to 16, plus 16 under win64.
C11_FrameSize ==
    PrologueDone =>
      /\ Len(SubRsp) = 1
      /\ LET F == SubRsp[1].b.n IN
         /\ SubRsp[1].b.t = "imm"
         /\ F = frame_size
         /\ F % 16 = 0
         /\ \A i \in StackRegs : regs[i + 1].index + SlotSize(i) <= F
         /\ F = ((LocalArea + 15) \div 16) * 16
                + (IF calling_convention = "X64_WINDOWS" THEN 16 ELSE 0)

\* C11 witness: a win64 function with three local stack slots ending off a
\* multiple of 16 has its prologue emitted
C11_Witness ==
    /\ PrologueDone
    /\ calling_convention = "X64_WINDOWS"
    /\ Cardinality(StackRegs) = 3
    /\ LocalArea % 16 # 0
    /\ Len(SubRsp) = 1

\* a function without parameters and locals whose body is one RETURN
\* without value was lowered
EmptyFunctionDone ==
    /\ pc = "done"
    /\ ir.link_name # ""
    /\ ir.register_count = 0
    /\ Len(ir.instructions) = 1
    /\ ir.instructions[1].opcode = "RETURN"
    /\ ~ir.instructions[1].has
\* the text of such a function with frame size F and the lines between
\* the prologue's `sub` and `leave`
EmptyFunctionText(F, between) ==
    << Line("label:", Txt("name", ir.link_name, 0, 0), NoTxt),
       Line("push", Txt("reg", "rbp", 0, 0), NoTxt),
       Line("mov", Txt("reg", "rbp", 0, 0), Txt("reg", "rsp", 0, 0)),
       Line("sub", Txt("reg", "rsp", 0, 0), Txt("imm", "", F, 0)) >>
    \o between
    \o << Line("leave", NoTxt, NoTxt), Line("ret", NoTxt, NoTxt) >>
\* the lines of the buffer without their instruction index
Text == [k \in 1..Len(out) |-> L(out[k])]

\* C12 as stated: a function without parameters and locals whose body is
\* one RETURN without value is the prologue with frame size 0 (16 under
\* win64) and right after it `leave`, `ret`.
C12_EmptyFunctionZeroFrame ==
    EmptyFunctionDone =>
      Text = EmptyFunctionText(
                 IF calling_convention = "X64_WINDOWS" THEN 16 ELSE 0, << >>)

\* C12 amended: such a function is the prologue with frame size 16 (32
\* under win64) and `push rbx`, then `pop rbx`, `leave`, `ret`, and
\* nothing else.
C12_EmptyFunction ==
    EmptyFunctionDone =>
      Text = EmptyFunctionText(
                 IF calling_convention = "X64_WINDOWS" THEN 32 ELSE 16,
                 << Line("push", Txt("reg", "rbx", 0, 0), NoTxt),
                    Line("pop", Txt("reg", "rbx", 0, 0), NoTxt) >>)

\* C12 witness: such a function was lowered under win64
C12_Witness ==
    /\ EmptyFunctionDone
    /\ calling_convention = "X64_WINDOWS"
    /\ Len(out) = 8

(* ------------------------ prelude and .rodata -------------------------- *)

\* C13: a function without link name leaves no line in the output: no
\* global or extern line, no line in .text, no db line in .rodata.
C13_UnnamedNoOutput ==
    (pc = "done" /\ ir.link_name = "") =>
      /\ header = << >>
      /\ out = << >>
      /\ rodata = << >>

\* One item of a db list: a quoted string (q, its bytes) or a number.
StrItem(bytes) == [q |-> TRUE, bytes |-> bytes, n |-> 0]
NumItem(n) == [q |-> FALSE, bytes |-> << >>, n |-> n]

RECURSIVE ReadDb(_, _, _)
\* The items the assembler reads from the characters t of a db list from
\* position k on.  st.mode: "item" (an item is due), "str" (inside quotes),
\* "num" (inside a number), "sep" (a comma or the end is due); st.ok turns
\* false at an empty item, a character out of place or an open quote.
ReadDb(t, k, st) ==
    IF ~st.ok THEN st
    ELSE IF k > Len(t) THEN
        CASE st.mode = "num" ->
               [st EXCEPT !.items = Append(@, NumItem(st.n)), !.mode = "sep"]
          [] st.mode = "sep" -> st
          [] OTHER -> [st EXCEPT !.ok = FALSE]
    ELSE LET c == t[k] IN
      ReadDb(t, k + 1,
        CASE st.mode = "item" ->
               IF c = 32 THEN st
               ELSE IF c = 34 THEN [st EXCEPT !.mode = "str", !.bytes = << >>]
               ELSE IF c \in 48..57 THEN [st EXCEPT !.mode = "num", !.n = c - 48]
               ELSE [st EXCEPT !.ok = FALSE]
          [] st.mode = "str" ->
               IF c = 34
               THEN [st EXCEPT !.items = Append(@, StrItem(st.bytes)),
                               !.mode = "sep"]
               ELSE [st EXCEPT !.bytes = Append(@, c)]
          [] st.mode = "num" ->
               IF c \in 48..57 THEN [st EXCEPT !.n = 10 * @ + (c - 48)]
               ELSE IF c = 44
               THEN [st EXCEPT !.items = Append(@, NumItem(st.n)),
                               !.mode = "item"]
               ELSE IF c = 32
               THEN [st EXCEPT !.items = Append(@, NumItem(st.n)),
                               !.mode = "sep"]
               ELSE [st EXCEPT !.ok = FALSE]
          [] OTHER ->
               IF c = 32 THEN st
               ELSE IF c = 44 THEN [st EXCEPT !.mode = "item"]
               ELSE [st EXCEPT !.ok = FALSE])

\* the db list t read back
Items(t) ==
    ReadDb(t, 1, [mode |-> "item", items |-> << >>, bytes |-> << >>,
                  n |-> 0, ok |-> TRUE])

RECURSIVE Runs(_, _)
\* the items the bytes of str from position k on are to appear as: each
\* maximal run of bytes >= 32 one string, each byte < 32 one number
Runs(str, k) ==
    IF k > Len(str) THEN << >>
    ELSE IF str[k] < 32 THEN << NumItem(str[k]) >> \o Runs(str, k + 1)
    ELSE LET e == CHOOSE x \in k..Len(str) :
                     /\ \A y \in k..x : str[y] >= 32
                     /\ x = Len(str) \/ str[x + 1] < 32
         IN << StrItem(SubSeq(str, k, e)) >> \o Runs(str, e + 1)

RECURSIVE BytesOf(_)
\* the bytes a list of items stands for
BytesOf(items) ==
    IF items = << >> THEN << >>
    ELSE (IF items[1].q THEN items[1].bytes ELSE << items[1].n >>)
         \o BytesOf(Tail(items))

\* C14: the db line of every string constant reads as a list of items
\* with no empty item and every quote closed: the maximal runs of bytes
\* >= 32 as one quoted string each, every byte < 32 as a number, a final 0;
\* read back it is the bytes of the constant and one 0 byte.
C14_DbLine ==
    pc = "done" =>
      \A k \in 1..Len(rodata) :
        LET str == ir.constants[rodata[k].n + 1].bytes
            read == Items(rodata[k].text)
        IN /\ rodata[k].f = ir_index
           /\ ir.constants[rodata[k].n + 1].tag = "string"
           /\ read.ok
           /\ read.items = Runs(str, 1) \o << NumItem(0) >>
           /\ BytesOf(read.items) = str \o << 0 >>

(* --------------------------- materialised sets ------------------------- *)

\* C15: the set line of a comparison that is not fused names the low-byte
\* register of the physical register its dest is stored in.
C15_SetccLowByte ==
    \A jj \in InstrIndices :
      LET d == ir.instructions[jj + 1].d IN
      (Lowered(jj) /\ IsComp(jj) /\ ~Fused(jj)
          /\ regs[d.i + 1].storage = "REGISTER") =>
        LET o == OutOf(jj) IN
        /\ o # << >>
        /\ o[Len(o)].op \in Sets
        /\ o[Len(o)].a = Txt("reg", register_names_8[regs[d.i + 1].index + 1], 0, 0)

(* --------------------------- running the text ------------------------- *)

\* Values are bytes: the emitted arithmetic is run modulo 2^8.
Width == 256
\* A location: general-purpose register n is n, xmm register n is 16 + n,
\* the local stack slot [rbp-n] is 100 + n, the stack parameter [rbp+n]
\* is 300 + n.
LocOf(x) ==
    CASE x.t = "local" -> 100 + x.n
      [] x.t = "param" -> 300 + x.n
      [] x.t = "reg" /\ \E n \in 0..15 : x.s \in NamesOf(n) ->
             CHOOSE n \in 0..15 : x.s \in NamesOf(n)
      [] x.t = "reg" /\ \E n \in 0..15 : x.s = register_names_xmm[n + 1] ->
             16 + (CHOOSE n \in 0..15 : x.s = register_names_xmm[n + 1])
      [] OTHER -> -1
Locs == 0..31 \cup {100 + n : n \in 16..64} \cup {300 + n : n \in 16..40}
\* the machine before the lines run: every location holds its own value
Machine0 ==
    [v |-> [loc \in Locs |-> IF loc < 100 THEN loc + 1
                             ELSE IF loc < 300 THEN loc - 60
                             ELSE loc - 190],
     stack |-> << >>]
\* the value of an operand of a line
ValOf(m, x) ==
    IF LocOf(x) \in Locs THEN m.v[LocOf(x)]
    ELSE IF x.t = "imm" THEN x.n % Width
    ELSE 200

RECURSIVE Bitwise(_, _, _, _)
\* and, or, xor of the low n bits of x and y
Bitwise(op, x, y, n) ==
    IF n = 0 THEN 0
    ELSE LET a == x % 2
             b == y % 2
             c == CASE op = "and" -> a * b
                    [] op = "or" -> IF a + b > 0 THEN 1 ELSE 0
                    [] OTHER -> (a + b) % 2
         IN c + 2 * Bitwise(op, x \div 2, y \div 2, n - 1)
\* what `op a, b` leaves in a
Alu(op, x, y) ==
    CASE op = "mov" -> y
      [] op = "add" -> (x + y) % Width
      [] op = "sub" -> (x - y + Width) % Width
      [] op = "imul" -> (x * y) % Width
      [] OTHER -> Bitwise(op, x, y, 8)
AluOps == {"mov", "add", "sub", "imul", "and", "or", "xor"}

RECURSIVE Run(_, _, _)
\* the machine after the lines k.. of o ran on machine m
Run(o, k, m) ==
    IF k > Len(o) THEN m
    ELSE LET x == o[k]
             a == LocOf(x.a)
         IN Run(o, k + 1,
              CASE x.op \in AluOps /\ a \in Locs /\ ~x.a.ind /\ ~x.b.ind ->
                     [m EXCEPT !.v[a] = Alu(x.op, m.v[a], ValOf(m, x.b))]
                [] x.op = "push" ->
                     [m EXCEPT !.stack = Append(@, ValOf(m, x.a))]
                [] x.op = "pop" /\ a \in Locs /\ m.stack # << >> ->
                     [m EXCEPT !.v[a] = m.stack[Len(m.stack)],
                               !.stack = SubSeq(@, 1, Len(@) - 1)]
                [] OTHER -> m)

\* the value operand o of an instruction has on machine m
OperandVal(m, o) == ValOf(m, sysemit_operand(o))
\* the IR operation of a three-operand opcode on values
IrOp(opcode, x, y) ==
    CASE opcode \in {"ADD", "POINTER_ADD"} -> (x + y) % Width
      [] opcode \in {"SUBTRACT", "POINTER_SUBTRACT"} -> (x - y + Width) % Width
      [] opcode = "MULTIPLY" -> (x * y) % Width
      [] opcode = "BAND" -> Bitwise("and", x, y, 8)
      [] opcode = "BOR" -> Bitwise("or", x, y, 8)
      [] OTHER -> Bitwise("xor", x, y, 8)

\* C16: MULTIPLY with dest on the stack is `mov RAX, lhs` (none when lhs
\* is in RAX), `imul RAX, rhs` with RAX sized to dest, `mov dest, RAX`, and
\* leaves lhs * rhs in dest; with dest in a register it is `mov dest, lhs`
\* (none when dest is lhs) and `imul dest, rhs`.
C16_Multiply ==
    \A jj \in InstrIndices :
      LET i == ir.instructions[jj + 1]
          o == [k \in 1..Len(OutOf(jj)) |-> L(OutOf(jj)[k])]
      IN
      (Lowered(jj) /\ i.opcode = "MULTIPLY") =>
        IF operand_isstack(i.d) THEN
          /\ o = sysemit_movreg(RAX, i.l)
                 \o << Line("imul",
                            sysemit_reg(TempReg(get_slot_regkind(i.d), RAX)),
                            sysemit_operand(i.r)) >>
                 \o sysemit_movfromreg(i.d, RAX)
          /\ OperandVal(Run(o, 1, Machine0), i.d)
               = IrOp("MULTIPLY", OperandVal(Machine0, i.l),
                                  OperandVal(Machine0, i.r))
        ELSE
          o = (IF i.d = i.l THEN << >>
               ELSE << Line("mov", sysemit_operand(i.d), sysemit_operand(i.l)) >>)
              \o << Line("imul", sysemit_operand(i.d), sysemit_operand(i.r)) >>

\* the opcodes lowered as `mov dest, lhs` then `op dest, rhs` that C19 names
MovOpOps == {"ADD", "POINTER_ADD", "SUBTRACT", "POINTER_SUBTRACT",
             "BAND", "BOR", "BXOR"}

\* C19: after the lines of ADD, SUBTRACT, BAND, BOR, BXOR or a pointer
\* variant ran, dest holds lhs op rhs of the values before, and every
\* virtual register stored elsewhere than dest holds what it held.
C19_ThreeOpValue ==
    \A jj \in InstrIndices :
      LET i == ir.instructions[jj + 1]
          m == Run(OutOf(jj), 1, Machine0)
      IN
      (Lowered(jj) /\ i.opcode \in MovOpOps) =>
        /\ OperandVal(m, i.d)
             = IrOp(i.opcode, OperandVal(Machine0, i.l),
                              OperandVal(Machine0, i.r))
        /\ \A v \in 0..(ir.register_count - 1) :
             LocOf(sysemit_operand(VReg(v))) # LocOf(sysemit_operand(i.d)) =>
               OperandVal(m, VReg(v)) = OperandVal(Machine0, VReg(v))

\* C20: when the call line of a sysv call of at most 6 arguments or a
\* win64 call of at most 4 is reached, argument register k holds the value
\* argument k had before the first line of the call sequence.
C20_ArgumentValues ==
    \A jj \in InstrIndices :
      LET argcount == ir.instructions[jj + 1].n IN
      (Lowered(jj) /\ IsCall(jj) /\ argcount <= Len(ArgRegs(CallCc(jj)))) =>
        LET o == OutOf(jj)
            args == janet_sys_callargs(jj)
            m == Run(SubSeq(o, 1, CallPos(o) - 1), 1, Machine0)
        IN \A k \in 1..argcount :
             m.v[ArgRegs(CallCc(jj))[k]] = OperandVal(Machine0, args[k])

(* ----------------------------- placement ------------------------------ *)

\* the bytes (offsets from rbp) the slot of virtual register i occupies:
\* SlotSize(i) bytes from rbp - index up
SlotBytes(i) == {b - regs[i + 1].index : b \in 0..(SlotSize(i) - 1)}

\* C17: the slots of two distinct virtual registers on the local stack
\* share no byte, and no slot reaches the saved base pointer at
\* [rbp, rbp+8).
C17_SlotsDisjoint ==
    (pc # "start" /\ ir.link_name # "") =>
      /\ \A a \in StackRegs, b \in StackRegs :
           a # b => SlotBytes(a) \cap SlotBytes(b) = {}
      /\ \A a \in StackRegs : SlotBytes(a) \cap (0..7) = {}

\* C18: no two distinct virtual registers, parameters included, are
\* stored in the same physical register.
C18_RegistersDistinct ==
    (pc # "start" /\ ir.link_name # "") =>
      \A a \in 1..Len(regs), b \in 1..Len(regs) :
        (a # b /\ regs[a].storage = "REGISTER" /\ regs[b].storage = "REGISTER")
          => regs[a].index # regs[b].index

(* ------------------------------- flags --------------------------------- *)

\* the mnemonics emitted here that write the flags
FlagOps == {"cmp", "test", "add", "sub", "imul", "idiv", "and", "or", "xor",
            "shl", "shr"}

RECURSIVE RunFlags(_, _, _)
\* The machine after the lines k.. of o ran on machine m, the flags kept
\* as the pair (fx, fy) a conditional reads as `fx compared with fy`: the
\* operands of a cmp, the result and 0 after another flag-writing line.
\* A set line writes 1 or 0 to its operand.
RunFlags(o, k, m) ==
    IF k > Len(o) THEN m
    ELSE LET x == o[k]
             a == LocOf(x.a)
         IN RunFlags(o, k + 1,
              CASE x.op = "cmp" ->
                     [m EXCEPT !.fx = ValOf(m, x.a), !.fy = ValOf(m, x.b)]
                [] x.op = "mov" /\ a \in Locs /\ ~x.a.ind /\ ~x.b.ind ->
                     [m EXCEPT !.v[a] = ValOf(m, x.b)]
                [] x.op \in AluOps \ {"mov"} /\ a \in Locs
                       /\ ~x.a.ind /\ ~x.b.ind ->
                     LET r == Alu(x.op, m.v[a], ValOf(m, x.b)) IN
                     [m EXCEPT !.v[a] = r, !.fx = r, !.fy = 0]
                [] x.op \in Sets /\ a \in Locs ->
                     [m EXCEPT !.v[a] = IF Taken(x.op, m.fx, m.fy) THEN 1 ELSE 0]
                [] OTHER -> m)

\* the machine before the lines run, with the flags of 0 compared with 0
MachineFlags0 == [v |-> Machine0.v, stack |-> << >>, fx |-> 0, fy |-> 0]

\* C21: in the lines of a comparison that is not fused, no line between
\* the cmp line and the set line writes the flags, and after the lines ran
\* dest holds 1 when lhs OP rhs holds of the values before and 0 otherwise.
C21_SetReadsCmp ==
    \A jj \in InstrIndices :
      LET i == ir.instructions[jj + 1]
          o == OutOf(jj)
      IN
      (Lowered(jj) /\ IsComp(jj) /\ ~Fused(jj)) =>
        /\ Positions(o, {"cmp"}) # {} /\ Positions(o, Sets) # {}
        /\ \A c \in Positions(o, {"cmp"}), t \in Positions(o, Sets) :
             /\ c < t
             /\ \A k \in (c + 1)..(t - 1) : o[k].op \notin FlagOps
        /\ OperandVal(RunFlags(o, 1, MachineFlags0), i.d)
             = IF Holds(i.opcode, OperandVal(Machine0, i.l),
                                  OperandVal(Machine0, i.r))
               THEN 1 ELSE 0

====
